---- MODULE Spec2Model ----
(***************************************************************************)
(* Model of the gather-and-translate pipeline of the Rancher exporter      *)
(* (src/gather.go): the reference caches stackRef / clusterRef, the label  *)
(* filter, the URL builder, the fetcher and the record router.             *)
(*                                                                         *)
(* Go strings that are only compared for equality (ids, names, types) are  *)
(* TLA+ strings.  Strings that the code takes apart (the URL, label keys)  *)
(* are sequences of one-character strings.  A Go map is a function; a nil  *)
(* map and an empty map are both the function with the empty domain (the   *)
(* code only ranges over them and takes their len).                        *)
(***************************************************************************)
EXTENDS Integers, Sequences, FiniteSets, TLC

VARIABLES
    stackRef,      \* global map stackID -> stackName
    clusterRef,    \* global map clusterID -> clusterName
    labelsFilter,  \* Exporter.labelsFilter, the compiled label pattern
    pc,            \* position of the scrape cycle: "idle", "gathered", "processed"
    res,           \* what the last gatherData call returned
    call,          \* the last processMetrics call: arguments, emitter calls, warnings, result
    scraped,       \* history: per endpoint, id -> name of the last record seen with that id
    dispatched,    \* history: per endpoint, id -> name of the last record that reached its branch
    refLog,        \* history of the direct store / retrieve calls (cache specification)
    unit,          \* the last direct call of a pure function (setEndpoint, allowedLabels)
    cycles         \* the scrape cycles running concurrently (concurrent specification)

vars ==
    <<stackRef, clusterRef, labelsFilter, pc, res, call, scraped, dispatched, refLog, unit,
      cycles>>

----------------------------------------------------------------------------
(* Bounds *)

\* longest payload (data.Data) a fetch returns
MaxRecords == 2

\* number of direct store / retrieve calls in one run of the cache specification
MaxRefOps == 4

----------------------------------------------------------------------------
(* Generic helpers *)

EmptyMap == [k \in {} |-> ""]

\* m with key k set to v (Go: m[k] = v)
MapPut(m, k, v) == [x \in (DOMAIN m) \cup {k} |-> IF x = k THEN v ELSE m[x]]

\* every order in which a range statement may visit the keys of a map
KeyOrders(m) ==
    LET n == Cardinality(DOMAIN m)
    IN  {o \in [1..n -> DOMAIN m] : \A k \in DOMAIN m : \E i \in 1..n : o[i] = k}

----------------------------------------------------------------------------
(* Reference cache, gather.go 220-260 *)

StackIDs == {"", "s1"}
StackNames == {"prod", "dev"}
ClusterIDs == {"", "c1"}
ClusterNames == {"east", "unknown"}

\* storeStackRef that keeps the name an id already has
storeStackRefKeepFirst(ref, stackID, stackName) ==
    IF stackID \in DOMAIN ref THEN ref ELSE MapPut(ref, stackID, stackName)

\* storeStackRef: stackRef[stackID] = stackName; return stackRef
storeStackRef(ref, stackID, stackName) == MapPut(ref, stackID, stackName)

\* the lookup loop without the test for the empty id
RECURSIVE rangeRefNoEmptyTest(_, _, _)
rangeRefNoEmptyTest(ref, order, id) ==
    IF order = <<>>
    THEN "unknown"
    ELSE IF id = Head(order) THEN ref[Head(order)]
    ELSE rangeRefNoEmptyTest(ref, Tail(order), id)

\* The loop of retrieveStackRef / retrieveClusterRef over the keys in the
\* order the range statement happens to visit them.
RECURSIVE rangeRef(_, _, _)
rangeRef(ref, order, id) ==
    IF order = <<>>
    THEN "unknown"
    ELSE LET key == Head(order)
             value == ref[key]
         IN  IF id = "" THEN "unknown"
             ELSE IF id = key THEN value
             ELSE rangeRef(ref, Tail(order), id)

retrieveStackRef(ref, order, stackID) == rangeRef(ref, order, stackID)

\* a store that starts a new map holding the one entry
storeClusterRefReset(ref, clusterID, clusterName) ==
    MapPut(EmptyMap, clusterID, clusterName)

storeClusterRef(ref, clusterID, clusterName) == MapPut(ref, clusterID, clusterName)

retrieveClusterRef(ref, order, clusterID) == rangeRef(ref, order, clusterID)

----------------------------------------------------------------------------
(* URL builder, gather.go 210-218 *)

\* first index at which old occurs in s, 0 when it does not occur
RECURSIVE IndexFrom(_, _, _)
IndexFrom(s, old, i) ==
    IF i + Len(old) - 1 > Len(s) THEN 0
    ELSE IF SubSeq(s, i, i + Len(old) - 1) = old THEN i
    ELSE IndexFrom(s, old, i + 1)

\* strings.Replace(s, old, new, 1): the first occurrence only
ReplaceFirst(s, old, new) ==
    LET i == IndexFrom(s, old, 1)
    IN  IF i = 0 THEN s
        ELSE SubSeq(s, 1, i - 1) \o new \o SubSeq(s, i + Len(old), Len(s))

V1 == <<"v", "1">>
V2Beta == <<"v", "2", "-", "b", "e", "t", "a">>
LimitQuery == <<"?", "l", "i", "m", "i", "t", "=">>

setEndpoint(rancherURL, component, resourceLimit) ==
    LET endpoint == rancherURL \o <<"/">> \o component \o <<"/">> \o LimitQuery \o resourceLimit
    IN  ReplaceFirst(endpoint, V1, V2Beta)

Scheme == <<"h", "t", "t", "p", ":", "/", "/">>
Hosts == {<<"h">>, <<"s", "r", "v", "1">>, <<"r", "a", "n", "c", "h">>}
ApiVersions == {V1, V2Beta, <<"v", "3">>}
Limits == {<<"1", "0", "0">>, <<"5">>, <<"0">>}

EndpointChars(e) ==
    CASE e = "hosts" -> <<"h", "o", "s", "t", "s">>
      [] e = "stacks" -> <<"s", "t", "a", "c", "k", "s">>
      [] e = "services" -> <<"s", "e", "r", "v", "i", "c", "e", "s">>
      [] e = "clusters" -> <<"c", "l", "u", "s", "t", "e", "r", "s">>
      [] e = "nodes" -> <<"n", "o", "d", "e", "s">>

Endpoints == {"hosts", "stacks", "services", "clusters", "nodes"}

BaseURL(host, ver) == Scheme \o host \o <<"/">> \o ver

----------------------------------------------------------------------------
(* Label filter, gather.go 160-168 *)

\* labelsFilter.MatchString(name) for the patterns "^lit" (anchored) and "lit"
MatchString(filter, name) ==
    IF filter.anchored
    THEN /\ Len(name) >= Len(filter.lit)
         /\ SubSeq(name, 1, Len(filter.lit)) = filter.lit
    ELSE IndexFrom(name, filter.lit, 1) # 0

\* the loop copying every entry, matching or not
RECURSIVE allowedLoopAll(_, _, _)
allowedLoopAll(labels, order, result) ==
    IF order = <<>> THEN result
    ELSE allowedLoopAll(labels, Tail(order), MapPut(result, Head(order), labels[Head(order)]))

\* the loop of allowedLabels over the keys in the order the range visits them
RECURSIVE allowedLoop(_, _, _)
allowedLoop(labels, order, result) ==
    IF order = <<>> THEN result
    ELSE LET name == Head(order)
             val == labels[name]
         IN  IF MatchString(labelsFilter, name)
             THEN allowedLoop(labels, Tail(order), MapPut(result, name, val))
             ELSE allowedLoop(labels, Tail(order), result)

allowedLabels(labels, order) == allowedLoop(labels, order, EmptyMap)

LabelKeys == {<<"a">>, <<"x", "b">>, <<"a", "b">>}
LabelValues == {"1", "2"}
LabelMaps == UNION {[ks -> LabelValues] : ks \in SUBSET LabelKeys}
Filters == [anchored : BOOLEAN, lit : {<<"a">>, <<"b">>, <<"z">>}]

----------------------------------------------------------------------------
(* Records of a payload, gather.go 15-39.  The fields that processMetrics   *)
(* only hands through to an emitter (State, HealthState, AgentState, Scale, *)
(* EnvID, ComponentStatuses) are left out.  HostInfo is TRUE for a non-nil  *)
(* pointer; LaunchConfig.present is TRUE for a non-nil pointer.             *)

NoLaunchConfig == [present |-> FALSE, Labels |-> EmptyMap]
LaunchConfig(labels) == [present |-> TRUE, Labels |-> labels]

Zero == [System |-> FALSE, BaseType |-> "", Type |-> "", Name |-> "", HostName |-> "",
         ID |-> "", StackID |-> "", ClusterID |-> "", NodeName |-> "",
         Labels |-> EmptyMap, HostInfo |-> FALSE, LaunchConfig |-> NoLaunchConfig]

LabelsA == [k \in {<<"a">>} |-> "1"]
LabelsXB == [k \in {<<"x", "b">>} |-> "2"]
LabelsAB == [k \in {<<"a">>, <<"x", "b">>} |-> IF k = <<"a">> THEN "2" ELSE "1"]

HostRecords ==
    { [Zero EXCEPT !.BaseType = "host", !.Type = "host", !.Name = "web1", !.HostName = "ip-1",
                   !.HostInfo = TRUE, !.Labels = LabelsA],
      [Zero EXCEPT !.BaseType = "host", !.Type = "host", !.HostName = "ip-2", !.Labels = LabelsXB],
      [Zero EXCEPT !.BaseType = "host", !.Type = "host", !.Name = "infra", !.HostName = "ip-3",
                   !.HostInfo = TRUE, !.System = TRUE, !.Labels = LabelsAB],
      [Zero EXCEPT !.Type = "host", !.Name = "web2", !.HostName = "ip-4"],
      [Zero EXCEPT !.BaseType = "machine", !.Type = "host", !.Name = "vm", !.HostInfo = TRUE,
                   !.Labels = LabelsA] }

StackRecords ==
    { [Zero EXCEPT !.BaseType = "stack", !.Type = "stack", !.ID = "s1", !.Name = "prod"],
      [Zero EXCEPT !.BaseType = "stack", !.Type = "stack", !.ID = "s1", !.Name = "dev"],
      [Zero EXCEPT !.Type = "stack", !.ID = "", !.Name = "prod"],
      [Zero EXCEPT !.BaseType = "stack", !.Type = "stack", !.ID = "s1", !.Name = "dev",
                   !.System = TRUE],
      [Zero EXCEPT !.BaseType = "environment", !.Type = "stack", !.ID = "s1", !.Name = "prod"] }

ServiceRecords ==
    { [Zero EXCEPT !.BaseType = "service", !.Type = "service", !.Name = "web", !.StackID = "s1"],
      [Zero EXCEPT !.BaseType = "service", !.Type = "loadBalancerService", !.Name = "lb",
                   !.StackID = "", !.LaunchConfig = LaunchConfig(LabelsA)],
      [Zero EXCEPT !.BaseType = "service", !.Type = "service", !.Name = "db", !.StackID = "s2",
                   !.LaunchConfig = LaunchConfig(EmptyMap)],
      [Zero EXCEPT !.BaseType = "service", !.Type = "service", !.Name = "dns", !.StackID = "s1",
                   !.System = TRUE, !.LaunchConfig = LaunchConfig(LabelsAB)],
      [Zero EXCEPT !.Type = "service", !.Name = "api", !.StackID = "s1",
                   !.LaunchConfig = LaunchConfig(LabelsXB)],
      [Zero EXCEPT !.BaseType = "container", !.Type = "service", !.Name = "sidecar",
                   !.StackID = "s1", !.LaunchConfig = LaunchConfig(LabelsA)] }

ClusterRecords ==
    { [Zero EXCEPT !.BaseType = "cluster", !.Type = "cluster", !.ID = "c1", !.Name = "east"],
      [Zero EXCEPT !.BaseType = "cluster", !.Type = "cluster", !.ID = "c1", !.Name = "unknown"],
      [Zero EXCEPT !.Type = "cluster", !.ID = "", !.Name = "east"],
      [Zero EXCEPT !.BaseType = "cluster", !.Type = "cluster", !.ID = "c1", !.Name = "unknown",
                   !.System = TRUE],
      [Zero EXCEPT !.BaseType = "project", !.Type = "cluster", !.ID = "c1", !.Name = "east"] }

NodeRecords ==
    { [Zero EXCEPT !.BaseType = "node", !.Type = "node", !.NodeName = "n1", !.ClusterID = "c1"],
      [Zero EXCEPT !.Type = "node", !.NodeName = "n2", !.ClusterID = ""],
      [Zero EXCEPT !.BaseType = "node", !.Type = "node", !.NodeName = "n3", !.ClusterID = "c2"],
      [Zero EXCEPT !.BaseType = "node", !.Type = "node", !.NodeName = "n4", !.ClusterID = "c1",
                   !.System = TRUE],
      [Zero EXCEPT !.BaseType = "pod", !.Type = "node", !.NodeName = "n5", !.ClusterID = "c1"] }

Records(endpoint) ==
    CASE endpoint = "hosts" -> HostRecords
      [] endpoint = "stacks" -> StackRecords
      [] endpoint = "services" -> ServiceRecords
      [] endpoint = "clusters" -> ClusterRecords
      [] endpoint = "nodes" -> NodeRecords

Payloads(endpoint) == UNION {[1..n -> Records(endpoint)] : n \in 0..MaxRecords}

----------------------------------------------------------------------------
(* Fetcher, gather.go 141-158 and 170-208 *)

\* What the server does with the one request: fault "request" is a failing
\* http.NewRequest, fault "transport" a failing client.Do; otherwise a
\* response with a status and a body that is JSON (json) or not.
Responses(endpoint) ==
    {[fault |-> f, status |-> 0, json |-> FALSE, body |-> <<>>] : f \in {"request", "transport"}}
    \cup {[fault |-> "none", status |-> st, json |-> FALSE, body |-> <<>>] : st \in {200, 500}}
    \cup {[fault |-> "none", status |-> st, json |-> TRUE, body |-> b] :
              st \in {200, 500}, b \in Payloads(endpoint)}

\* getJSON: a failing NewRequest leaves req nil and req.SetBasicAuth
\* dereferences it; a failing client.Do leaves resp nil and resp.StatusCode
\* dereferences it: both are run-time panics.  A status other than 200 is
\* logged only.  The value returned is the error of Decode.
getJSON(url, resp) ==
    IF resp.fault = "request" THEN [panic |-> TRUE, err |-> "", target |-> <<>>]
    ELSE IF resp.fault = "transport" THEN [panic |-> TRUE, err |-> "", target |-> <<>>]
    ELSE IF resp.json THEN [panic |-> FALSE, err |-> "", target |-> resp.body]
    ELSE [panic |-> FALSE, err |-> "decode", target |-> <<>>]

RancherURL == BaseURL(<<"h">>, V1)
ResourceLimit == <<"1", "0", "0">>

\* gatherData calling getJSON a second time when the first call failed
gatherDataRetry(rancherURL, resourceLimit, endpoint, resp) ==
    LET url == setEndpoint(rancherURL, EndpointChars(endpoint), resourceLimit)
        j1 == getJSON(url, resp)
        again == ~j1.panic /\ j1.err # ""
        j == IF again THEN getJSON(url, resp) ELSE j1
        n == IF again THEN 2 ELSE 1
    IN  IF j.panic
        THEN [endpoint |-> endpoint, url |-> url, resp |-> resp, outcome |-> "panic",
              hasData |-> FALSE, data |-> <<>>, err |-> "", fetches |-> n]
        ELSE IF j.err # ""
        THEN [endpoint |-> endpoint, url |-> url, resp |-> resp, outcome |-> "error",
              hasData |-> FALSE, data |-> <<>>, err |-> j.err, fetches |-> n]
        ELSE [endpoint |-> endpoint, url |-> url, resp |-> resp, outcome |-> "ok",
              hasData |-> TRUE, data |-> j.target, err |-> j.err, fetches |-> n]

\* gatherData: outcome "ok" is the return (data, nil), "error" is (nil, err),
\* "panic" is the panic of getJSON passing through.  fetches counts the calls
\* of getJSON the call made: the one of gather.go 150.
gatherData(rancherURL, resourceLimit, endpoint, resp) ==
    LET url == setEndpoint(rancherURL, EndpointChars(endpoint), resourceLimit)
        j == getJSON(url, resp)
        n == 1
    IN  IF j.panic
        THEN [endpoint |-> endpoint, url |-> url, resp |-> resp, outcome |-> "panic",
              hasData |-> FALSE, data |-> <<>>, err |-> "", fetches |-> n]
        ELSE IF j.err # ""
        THEN [endpoint |-> endpoint, url |-> url, resp |-> resp, outcome |-> "error",
              hasData |-> FALSE, data |-> <<>>, err |-> j.err, fetches |-> n]
        ELSE [endpoint |-> endpoint, url |-> url, resp |-> resp, outcome |-> "ok",
              hasData |-> TRUE, data |-> j.target, err |-> j.err, fetches |-> n]

----------------------------------------------------------------------------
(* Record classifier and router, gather.go 72-139 *)

\* the per-endpoint allow-list of effective types
checkMetric(endpoint, dataType) ==
    CASE endpoint = "hosts" -> dataType = "host"
      [] endpoint = "stacks" -> dataType = "stack"
      [] endpoint = "services" -> dataType = "service"
      [] endpoint = "clusters" -> dataType = "cluster"
      [] endpoint = "nodes" -> dataType = "node"
      [] OTHER -> FALSE

\* the effective type taken from Type alone
dataTypeIgnoreBase(x) == x.Type

\* dataType := x.BaseType; if dataType == "" { dataType = x.Type }
dataType(x) == IF x.BaseType = "" THEN x.Type ELSE x.BaseType

\* one call of an emitter (e.setXxxMetrics) made for record number rec
Emit(fn, rec, name, parent, labels, system) ==
    [fn |-> fn, rec |-> rec, name |-> name, parent |-> parent, labels |-> labels,
     system |-> system]

\* one log.Warnf made for record number rec
Warn(what, rec, name) == [what |-> what, rec |-> rec, name |-> name]

\* strconv.FormatBool
FormatBool(b) == IF b THEN "true" ELSE "false"

\* the order in which allowedLabels ranges over a label map inside
\* processMetrics; its result does not depend on it (LabelsExact)
SomeOrder(labels) == CHOOSE o \in KeyOrders(labels) : TRUE

\* the hosts branch calling setHostInfoMetrics without the nil test
hostsBranchAlwaysInfo(acc, x, i) ==
    LET filteredLabels == allowedLabels(x.Labels, SomeOrder(x.Labels))
        s == IF x.Name # "" THEN x.Name ELSE x.HostName
    IN  [acc EXCEPT !.filteredLabels = filteredLabels,
                    !.emitted = @ \o <<Emit("setHostStateMetrics", i, s, "", filteredLabels, ""),
                                       Emit("setHostInfoMetrics", i, s, "", filteredLabels, "")>>]

hostsBranch(acc, x, i) ==
    LET filteredLabels == allowedLabels(x.Labels, SomeOrder(x.Labels))
        s == IF x.Name # "" THEN x.Name ELSE x.HostName
        state == Emit("setHostStateMetrics", i, s, "", filteredLabels, "")
        info == Emit("setHostInfoMetrics", i, s, "", filteredLabels, "")
    IN  [acc EXCEPT !.filteredLabels = filteredLabels,
                    !.emitted = IF x.HostInfo THEN @ \o <<state, info>> ELSE @ \o <<state>>]

\* the stacks branch without the store
stacksBranchNoStore(acc, x, i) ==
    [acc EXCEPT !.emitted = Append(@, Emit("setStackMetrics", i, x.Name, "", EmptyMap,
                                           FormatBool(x.System)))]

stacksBranch(acc, x, i) ==
    [acc EXCEPT !.stackRef = storeStackRef(acc.stackRef, x.ID, x.Name),
                !.emitted = Append(@, Emit("setStackMetrics", i, x.Name, "", EmptyMap,
                                           FormatBool(x.System)))]

\* the services branch giving up on a record whose stack is not resolved
servicesBranchDropMiss(acc, x, i, sOrder) ==
    LET stackName == retrieveStackRef(acc.stackRef, sOrder, x.StackID)
        filteredLabels ==
            IF x.LaunchConfig.present /\ Cardinality(DOMAIN x.LaunchConfig.Labels) > 0
            THEN allowedLabels(x.LaunchConfig.Labels, SomeOrder(x.LaunchConfig.Labels))
            ELSE acc.filteredLabels
    IN  IF stackName = "unknown"
        THEN [acc EXCEPT !.warnings = Append(@, Warn("stack_name", i, x.Name))]
        ELSE [acc EXCEPT !.filteredLabels = filteredLabels,
                         !.emitted = Append(@, Emit("setServiceMetrics", i, x.Name, stackName,
                                                    filteredLabels, ""))]

servicesBranch(acc, x, i, sOrder) ==
    LET stackName == retrieveStackRef(acc.stackRef, sOrder, x.StackID)
        filteredLabels ==
            IF x.LaunchConfig.present /\ Cardinality(DOMAIN x.LaunchConfig.Labels) > 0
            THEN allowedLabels(x.LaunchConfig.Labels, SomeOrder(x.LaunchConfig.Labels))
            ELSE acc.filteredLabels
    IN  [acc EXCEPT !.filteredLabels = filteredLabels,
                    !.warnings = IF stackName = "unknown"
                                 THEN Append(@, Warn("stack_name", i, x.Name)) ELSE @,
                    !.emitted = Append(@, Emit("setServiceMetrics", i, x.Name, stackName,
                                               filteredLabels, ""))]

\* the clusters branch without the store
clustersBranchNoStore(acc, x, i) ==
    [acc EXCEPT !.emitted = Append(@, Emit("setClusterMetrics", i, x.Name, "", EmptyMap, ""))]

clustersBranch(acc, x, i) ==
    [acc EXCEPT !.clusterRef = storeClusterRef(acc.clusterRef, x.ID, x.Name),
                !.emitted = Append(@, Emit("setClusterMetrics", i, x.Name, "", EmptyMap, ""))]

\* the nodes branch storing the name it resolved
nodesBranchCaching(acc, x, i, cOrder) ==
    LET clusterName == retrieveClusterRef(acc.clusterRef, cOrder, x.ClusterID)
    IN  [acc EXCEPT !.clusterRef = storeClusterRef(acc.clusterRef, x.ClusterID, clusterName),
                    !.warnings = IF clusterName = "unknown"
                                 THEN Append(@, Warn("cluster_name", i, x.NodeName)) ELSE @,
                    !.emitted = Append(@, Emit("setNodeMetrics", i, x.NodeName, clusterName,
                                               EmptyMap, ""))]

nodesBranch(acc, x, i, cOrder) ==
    LET clusterName == retrieveClusterRef(acc.clusterRef, cOrder, x.ClusterID)
    IN  [acc EXCEPT !.warnings = IF clusterName = "unknown"
                                 THEN Append(@, Warn("cluster_name", i, x.NodeName)) ELSE @,
                    !.emitted = Append(@, Emit("setNodeMetrics", i, x.NodeName, clusterName,
                                               EmptyMap, ""))]

\* the loop body without the test for hidden system records
processRecordShowSys(acc, x, i, endpoint, hideSys, sOrder, cOrder) ==
    IF ~checkMetric(endpoint, dataType(x)) THEN acc
    ELSE IF endpoint = "hosts" THEN hostsBranch(acc, x, i)
    ELSE IF endpoint = "stacks" THEN stacksBranch(acc, x, i)
    ELSE IF endpoint = "services" THEN servicesBranch(acc, x, i, sOrder)
    ELSE IF endpoint = "clusters" THEN clustersBranch(acc, x, i)
    ELSE IF endpoint = "nodes" THEN nodesBranch(acc, x, i, cOrder)
    ELSE acc

\* the body of the loop for record x, the i-th of the payload
processRecord(acc, x, i, endpoint, hideSys, sOrder, cOrder) ==
    IF hideSys /\ x.System THEN acc
    ELSE IF ~checkMetric(endpoint, dataType(x)) THEN acc
    ELSE IF endpoint = "hosts" THEN hostsBranch(acc, x, i)
    ELSE IF endpoint = "stacks" THEN stacksBranch(acc, x, i)
    ELSE IF endpoint = "services" THEN servicesBranch(acc, x, i, sOrder)
    ELSE IF endpoint = "clusters" THEN clustersBranch(acc, x, i)
    ELSE IF endpoint = "nodes" THEN nodesBranch(acc, x, i, cOrder)
    ELSE acc

\* the loop: records i..Len(data); trail[i] is the pair of caches after record i
RECURSIVE processLoop(_, _, _, _, _, _, _)
processLoop(acc, data, i, endpoint, hideSys, sOrder, cOrder) ==
    IF i > Len(data) THEN acc
    ELSE LET a == processRecord(acc, data[i], i, endpoint, hideSys, sOrder, cOrder)
             b == [a EXCEPT !.trail = Append(@, [stackRef |-> a.stackRef,
                                                 clusterRef |-> a.clusterRef])]
         IN  processLoop(b, data, i + 1, endpoint, hideSys, sOrder, cOrder)

\* processMetrics from the caches sRef, cRef: filteredLabels starts nil, the
\* loop runs over data.Data, the function returns nil.  sOrder and cOrder are
\* the orders in which the lookups of this call range over the two caches.
\* processMetrics with filteredLabels living outside the call: the loop
\* starts with labels left from earlier work
processMetricsStaleLabels(data, endpoint, hideSys, sRef, cRef, sOrder, cOrder) ==
    LET acc0 == [stackRef |-> sRef, clusterRef |-> cRef, filteredLabels |-> LabelsA,
                 emitted |-> <<>>, warnings |-> <<>>, trail |-> <<>>]
        acc == processLoop(acc0, data, 1, endpoint, hideSys, sOrder, cOrder)
    IN  [stackRef |-> acc.stackRef, clusterRef |-> acc.clusterRef,
         emitted |-> acc.emitted, warnings |-> acc.warnings, trail |-> acc.trail,
         ret |-> "nil"]

processMetrics(data, endpoint, hideSys, sRef, cRef, sOrder, cOrder) ==
    LET acc0 == [stackRef |-> sRef, clusterRef |-> cRef, filteredLabels |-> EmptyMap,
                 emitted |-> <<>>, warnings |-> <<>>, trail |-> <<>>]
        acc == processLoop(acc0, data, 1, endpoint, hideSys, sOrder, cOrder)
    IN  [stackRef |-> acc.stackRef, clusterRef |-> acc.clusterRef,
         emitted |-> acc.emitted, warnings |-> acc.warnings, trail |-> acc.trail,
         ret |-> "nil"]

\* the record reaches the branch of its endpoint (it is not skipped)
Dispatched(x, endpoint, hideSys) ==
    /\ ~(hideSys /\ x.System)
    /\ checkMetric(endpoint, dataType(x))

\* history of the records seen: id -> name of the last record of data, of all
\* records (all = TRUE) or of the records that reached their branch
RECURSIVE LastNames(_, _, _, _, _, _)
LastNames(m, data, i, endpoint, hideSys, all) ==
    IF i > Len(data) THEN m
    ELSE LastNames(IF all \/ Dispatched(data[i], endpoint, hideSys)
                   THEN MapPut(m, data[i].ID, data[i].Name) ELSE m,
                   data, i + 1, endpoint, hideSys, all)

----------------------------------------------------------------------------
(* Initial state *)

NoResp == [fault |-> "none", status |-> 0, json |-> FALSE, body |-> <<>>]

NoRes == [endpoint |-> "", url |-> <<>>, resp |-> NoResp, outcome |-> "none",
          hasData |-> FALSE, data |-> <<>>, err |-> "", fetches |-> 0]

NoCall == [endpoint |-> "", hideSys |-> FALSE, data |-> <<>>,
           stackRef0 |-> EmptyMap, clusterRef0 |-> EmptyMap,
           emitted |-> <<>>, warnings |-> <<>>, trail |-> <<>>, ret |-> "none"]

NoUnit == [fn |-> "none"]

NoCycles == <<>>

DefaultFilter == [anchored |-> TRUE, lit |-> <<"a">>]

InitRest ==
    /\ stackRef = EmptyMap
    /\ clusterRef = EmptyMap
    /\ pc = "idle"
    /\ res = NoRes
    /\ call = NoCall
    /\ scraped = [stacks |-> EmptyMap, clusters |-> EmptyMap]
    /\ dispatched = [stacks |-> EmptyMap, clusters |-> EmptyMap]
    /\ refLog = <<>>
    /\ unit = NoUnit
    /\ cycles = NoCycles

Init ==
    /\ labelsFilter = DefaultFilter
    /\ InitRest

\* the exporter constructed with any of the label patterns
InitLabels ==
    /\ labelsFilter \in Filters
    /\ InitRest

----------------------------------------------------------------------------
(* Scrape cycle: for one endpoint, gatherData and then processMetrics *)

GatherData(endpoint, resp) ==
    /\ pc = "idle"
    /\ res' = gatherData(RancherURL, ResourceLimit, endpoint, resp)
    /\ pc' = "gathered"
    /\ UNCHANGED <<stackRef, clusterRef, labelsFilter, call, scraped, dispatched, refLog, unit, cycles>>

ProcessMetrics(hideSys) ==
    /\ pc = "gathered"
    /\ res.outcome = "ok"
    /\ \E sOrder \in KeyOrders(stackRef), cOrder \in KeyOrders(clusterRef) :
         LET r == processMetrics(res.data, res.endpoint, hideSys, stackRef, clusterRef,
                                 sOrder, cOrder)
         IN  /\ stackRef' = r.stackRef
             /\ clusterRef' = r.clusterRef
             /\ call' = [endpoint |-> res.endpoint, hideSys |-> hideSys, data |-> res.data,
                         stackRef0 |-> stackRef, clusterRef0 |-> clusterRef,
                         emitted |-> r.emitted, warnings |-> r.warnings, trail |-> r.trail,
                         ret |-> r.ret]
    /\ scraped' =
         IF res.endpoint = "stacks"
         THEN [scraped EXCEPT !.stacks = LastNames(@, res.data, 1, "stacks", hideSys, TRUE)]
         ELSE IF res.endpoint = "clusters"
         THEN [scraped EXCEPT !.clusters = LastNames(@, res.data, 1, "clusters", hideSys, TRUE)]
         ELSE scraped
    /\ dispatched' =
         IF res.endpoint = "stacks"
         THEN [dispatched EXCEPT !.stacks = LastNames(@, res.data, 1, "stacks", hideSys, FALSE)]
         ELSE IF res.endpoint = "clusters"
         THEN [dispatched EXCEPT
                   !.clusters = LastNames(@, res.data, 1, "clusters", hideSys, FALSE)]
         ELSE dispatched
    /\ pc' = "processed"
    /\ res' = NoRes
    /\ UNCHANGED <<labelsFilter, refLog, unit, cycles>>

\* the cycle goes on to its next endpoint: after processMetrics, or at once
\* when gatherData gave no data
NextEndpoint ==
    /\ pc = "processed" \/ (pc = "gathered" /\ res.outcome # "ok")
    /\ pc' = "idle"
    /\ res' = NoRes
    /\ call' = NoCall
    /\ UNCHANGED <<stackRef, clusterRef, labelsFilter, scraped, dispatched, refLog, unit, cycles>>

Next ==
    \/ \E endpoint \in Endpoints : \E resp \in Responses(endpoint) : GatherData(endpoint, resp)
    \/ \E hideSys \in BOOLEAN : ProcessMetrics(hideSys)
    \/ NextEndpoint

Spec == Init /\ [][Next]_vars

----------------------------------------------------------------------------
(* Cache specification: direct calls of the four cache functions *)

RefEntry(op, kind, id, name) == [op |-> op, kind |-> kind, id |-> id, name |-> name]

StoreStackRef(id, name) ==
    /\ Len(refLog) < MaxRefOps
    /\ stackRef' = storeStackRef(stackRef, id, name)
    /\ refLog' = Append(refLog, RefEntry("store", "stack", id, name))
    /\ UNCHANGED <<clusterRef, labelsFilter, pc, res, call, scraped, dispatched, unit, cycles>>

RetrieveStackRef(id) ==
    /\ Len(refLog) < MaxRefOps
    /\ \E order \in KeyOrders(stackRef) :
         refLog' = Append(refLog, RefEntry("retrieve", "stack", id,
                                           retrieveStackRef(stackRef, order, id)))
    /\ UNCHANGED <<stackRef, clusterRef, labelsFilter, pc, res, call, scraped, dispatched, unit, cycles>>

StoreClusterRef(id, name) ==
    /\ Len(refLog) < MaxRefOps
    /\ clusterRef' = storeClusterRef(clusterRef, id, name)
    /\ refLog' = Append(refLog, RefEntry("store", "cluster", id, name))
    /\ UNCHANGED <<stackRef, labelsFilter, pc, res, call, scraped, dispatched, unit, cycles>>

RetrieveClusterRef(id) ==
    /\ Len(refLog) < MaxRefOps
    /\ \E order \in KeyOrders(clusterRef) :
         refLog' = Append(refLog, RefEntry("retrieve", "cluster", id,
                                           retrieveClusterRef(clusterRef, order, id)))
    /\ UNCHANGED <<stackRef, clusterRef, labelsFilter, pc, res, call, scraped, dispatched, unit, cycles>>

NextRef ==
    \/ \E id \in StackIDs, name \in StackNames : StoreStackRef(id, name)
    \/ \E id \in StackIDs : RetrieveStackRef(id)
    \/ \E id \in ClusterIDs, name \in ClusterNames : StoreClusterRef(id, name)
    \/ \E id \in ClusterIDs : RetrieveClusterRef(id)

SpecRef == Init /\ [][NextRef]_vars

----------------------------------------------------------------------------
(* Label-filter specification: direct calls of allowedLabels *)

AllowedLabels(labels, order) ==
    /\ unit' = [fn |-> "allowedLabels", labels |-> labels,
                result |-> allowedLabels(labels, order)]
    /\ UNCHANGED <<stackRef, clusterRef, labelsFilter, pc, res, call, scraped, dispatched,
                   refLog, cycles>>

NextLabels == \E labels \in LabelMaps : \E order \in KeyOrders(labels) : AllowedLabels(labels, order)

SpecLabels == InitLabels /\ [][NextLabels]_vars

----------------------------------------------------------------------------
(* URL specification: direct calls of setEndpoint *)

SetEndpoint(host, ver, endpoint, limit) ==
    /\ unit' = [fn |-> "setEndpoint", host |-> host, ver |-> ver, endpoint |-> endpoint,
                limit |-> limit,
                result |-> setEndpoint(BaseURL(host, ver), EndpointChars(endpoint), limit)]
    /\ UNCHANGED <<stackRef, clusterRef, labelsFilter, pc, res, call, scraped, dispatched,
                   refLog, cycles>>

NextURL ==
    \E host \in Hosts, ver \in ApiVersions, endpoint \in Endpoints, limit \in Limits :
        SetEndpoint(host, ver, endpoint, limit)

SpecURL == Init /\ [][NextURL]_vars

----------------------------------------------------------------------------
(* Two scrape cycles running concurrently on the shared caches.  A cycle
   takes its endpoints in order; for the record of a payload it enters the
   access of the cache (the map assignment of storeStackRef / storeClusterRef,
   the range loop of retrieveStackRef / retrieveClusterRef) in one step and
   leaves it in another, so that accesses of the two cycles overlap: the
   code takes no lock.  An access that overlaps a write of the same map by
   the other cycle is a data race: it either completes, or the run time
   stops the process ("concurrent map writes", "concurrent map iteration and
   map write"), or, for the range loop, the entry looked for is not
   produced. *)

Cycles == {"A", "B"}

\* the endpoints of one cycle that use a cache, parents before children
CycleEndpoints == <<"stacks", "services", "clusters", "nodes">>

CacheOf(endpoint) == IF endpoint \in {"stacks", "services"} THEN "stackRef" ELSE "clusterRef"

\* the records a cycle receives: one record per payload, visible and of the
\* type of its endpoint
CycleRecords(endpoint) ==
    {x \in Records(endpoint) :
        /\ Dispatched(x, endpoint, FALSE) /\ ~x.System /\ x.BaseType # ""
        /\ endpoint \in {"stacks", "clusters"} => x.ID # ""
        /\ endpoint = "services" => x.StackID # "" /\ ~x.LaunchConfig.present
        /\ endpoint = "nodes" => x.ClusterID = "c1"}

\* the answers of the server to a cycle: a body that is not JSON, or one
\* record
CycleResponses(endpoint) ==
    {[fault |-> "none", status |-> 200, json |-> FALSE, body |-> <<>>]}
    \cup {[fault |-> "none", status |-> 200, json |-> TRUE, body |-> <<x>>] :
              x \in CycleRecords(endpoint)}

NewCycle ==
    [pc |-> "gather", ep |-> 1, x |-> Zero, raced |-> FALSE, stored |-> {}, resolved |-> {}]

InitConc ==
    /\ labelsFilter = DefaultFilter
    /\ stackRef = EmptyMap
    /\ clusterRef = EmptyMap
    /\ pc = "idle"
    /\ res = NoRes
    /\ call = NoCall
    /\ scraped = [stacks |-> EmptyMap, clusters |-> EmptyMap]
    /\ dispatched = [stacks |-> EmptyMap, clusters |-> EmptyMap]
    /\ refLog = <<>>
    /\ unit = NoUnit
    /\ cycles = [c \in Cycles |-> NewCycle]

Endpoint(c) == CycleEndpoints[cycles[c].ep]

\* the cycle is inside an access of the cache
Accessing(c, cache) ==
    /\ cycles[c].pc \in {"storing", "ranging"}
    /\ CacheOf(Endpoint(c)) = cache

Writing(c, cache) == cycles[c].pc = "storing" /\ CacheOf(Endpoint(c)) = cache

\* the cycle moves to its next endpoint
Advance(cy) ==
    [cy EXCEPT !.pc = IF cy.ep = Len(CycleEndpoints) THEN "done" ELSE "gather",
               !.ep = IF cy.ep = Len(CycleEndpoints) THEN cy.ep ELSE cy.ep + 1,
               !.x = Zero, !.raced = FALSE]

\* the outcomes of an access: of a write, of a range loop
StoreOutcomes(raced) == IF raced THEN {"completed", "fatal"} ELSE {"completed"}
RangeOutcomes(raced) == IF raced THEN {"completed", "fatal", "skipped"} ELSE {"completed"}

\* gatherData of the cycle for its endpoint; on an error the endpoint is
\* abandoned
CycleGather(c) ==
    /\ cycles[c].pc = "gather"
    /\ \E resp \in CycleResponses(Endpoint(c)) :
         LET r == gatherData(RancherURL, ResourceLimit, Endpoint(c), resp)
         IN  cycles' = [cycles EXCEPT ![c] =
                           IF r.outcome = "ok"
                           THEN [@ EXCEPT !.pc = "record", !.x = r.data[1]]
                           ELSE Advance(@)]
    /\ UNCHANGED <<stackRef, clusterRef, labelsFilter, pc, res, call, scraped, dispatched,
                   refLog, unit>>

\* processMetrics of the cycle reaches the branch of its record and enters
\* the access of the cache; the access races when the other cycle is inside
\* an access of the same map and one of the two writes
CycleEnter(c) ==
    /\ cycles[c].pc = "record"
    /\ LET endpoint == Endpoint(c)
           cache == CacheOf(endpoint)
           write == endpoint \in {"stacks", "clusters"}
           races(d) == d # c /\ Accessing(d, cache) /\ (write \/ Writing(d, cache))
       IN  cycles' = [d \in Cycles |->
                         IF d = c
                         THEN IF ~Dispatched(cycles[c].x, endpoint, FALSE)
                              THEN Advance(cycles[c])
                              ELSE [cycles[c] EXCEPT
                                       !.pc = IF write THEN "storing" ELSE "ranging",
                                       !.raced = \E e \in Cycles : races(e)]
                         ELSE IF races(d) /\ Dispatched(cycles[c].x, endpoint, FALSE)
                              THEN [cycles[d] EXCEPT !.raced = TRUE]
                              ELSE cycles[d]]
    /\ UNCHANGED <<stackRef, clusterRef, labelsFilter, pc, res, call, scraped, dispatched,
                   refLog, unit>>

\* the map assignment of storeStackRef / storeClusterRef ends
CycleStore(c) ==
    /\ cycles[c].pc = "storing"
    /\ \E outcome \in StoreOutcomes(cycles[c].raced) :
         LET x == cycles[c].x
             cache == CacheOf(Endpoint(c))
         IN  IF outcome = "fatal"
             THEN /\ cycles' = [d \in Cycles |-> [cycles[d] EXCEPT !.pc = "crashed"]]
                  /\ UNCHANGED <<stackRef, clusterRef>>
             ELSE /\ stackRef' = IF cache = "stackRef"
                                 THEN storeStackRef(stackRef, x.ID, x.Name) ELSE stackRef
                  /\ clusterRef' = IF cache = "clusterRef"
                                   THEN storeClusterRef(clusterRef, x.ID, x.Name) ELSE clusterRef
                  /\ cycles' = [cycles EXCEPT ![c] =
                                   Advance([@ EXCEPT !.stored = @ \cup
                                       {[cache |-> cache, id |-> x.ID, name |-> x.Name]}])]
    /\ UNCHANGED <<labelsFilter, pc, res, call, scraped, dispatched, refLog, unit>>

\* the range loop of retrieveStackRef / retrieveClusterRef ends
CycleRetrieve(c) ==
    /\ cycles[c].pc = "ranging"
    /\ \E outcome \in RangeOutcomes(cycles[c].raced) :
       \E sOrder \in KeyOrders(stackRef), cOrder \in KeyOrders(clusterRef) :
         LET x == cycles[c].x
             endpoint == Endpoint(c)
             id == IF endpoint = "services" THEN x.StackID ELSE x.ClusterID
             name == IF outcome = "skipped" THEN "unknown"
                     ELSE IF endpoint = "services"
                          THEN retrieveStackRef(stackRef, sOrder, id)
                          ELSE retrieveClusterRef(clusterRef, cOrder, id)
         IN  IF outcome = "fatal"
             THEN cycles' = [d \in Cycles |-> [cycles[d] EXCEPT !.pc = "crashed"]]
             ELSE cycles' = [cycles EXCEPT ![c] =
                                Advance([@ EXCEPT !.resolved = @ \cup
                                    {[endpoint |-> endpoint, id |-> id, name |-> name]}])]
    /\ UNCHANGED <<stackRef, clusterRef, labelsFilter, pc, res, call, scraped, dispatched,
                   refLog, unit>>

NextConc ==
    \/ \E c \in Cycles : CycleGather(c)
    \/ \E c \in Cycles : CycleEnter(c)
    \/ \E c \in Cycles : CycleStore(c)
    \/ \E c \in Cycles : CycleRetrieve(c)

SpecConc == InitConc /\ [][NextConc]_vars

----------------------------------------------------------------------------
(* Properties of the reference cache (SpecRef) *)

\* an earlier entry of refLog stored id in the cache of this kind
StoredBefore(i, kind, id) ==
    \E j \in 1..(i - 1) :
        refLog[j].op = "store" /\ refLog[j].kind = kind /\ refLog[j].id = id

\* C2: every retrieveStackRef / retrieveClusterRef call for the empty key, or
\* for a key that no earlier call stored, returns "unknown", whatever the
\* cache holds and in whatever order the lookup ranges over it.
RetrieveUnknownForEmptyOrAbsent ==
    \A i \in 1..Len(refLog) :
        LET e == refLog[i]
        IN  (e.op = "retrieve" /\ (e.id = "" \/ ~StoredBefore(i, e.kind, e.id)))
                => e.name = "unknown"

\* the empty id was stored with a name, a lookup of the empty key followed,
\* and a lookup of a key never stored ran on a non-empty cache
RetrieveEmptyAfterStoreReached ==
    /\ \E i \in 1..Len(refLog) :
         /\ refLog[i].op = "retrieve" /\ refLog[i].kind = "stack" /\ refLog[i].id = ""
         /\ StoredBefore(i, "stack", "")
         /\ refLog[i].name = "unknown"
    /\ \E i \in 1..Len(refLog) :
         /\ refLog[i].op = "retrieve" /\ refLog[i].kind = "cluster" /\ refLog[i].id = "c1"
         /\ ~StoredBefore(i, "cluster", "c1")
         /\ StoredBefore(i, "cluster", "")

\* entries i, i+1, i+2 of refLog are store(id, A), store(id, B), retrieve(id)
StoreStoreRetrieve(i) ==
    /\ i + 2 <= Len(refLog)
    /\ refLog[i].op = "store" /\ refLog[i + 1].op = "store" /\ refLog[i + 2].op = "retrieve"
    /\ refLog[i + 1].kind = refLog[i].kind /\ refLog[i + 2].kind = refLog[i].kind
    /\ refLog[i + 1].id = refLog[i].id /\ refLog[i + 2].id = refLog[i].id

\* C3 as stated: for every id, store(id, A), store(id, B), retrieve(id)
\* returns B, for both caches.
LastWriteWinsEveryId ==
    \A i \in 1..Len(refLog) :
        StoreStoreRetrieve(i) => refLog[i + 2].name = refLog[i + 1].name

\* C3: for every non-empty id, store(id, A), store(id, B), retrieve(id)
\* returns B, for both caches; for the empty id the lookup returns "unknown".
LastWriteWins ==
    \A i \in 1..Len(refLog) :
        StoreStoreRetrieve(i) =>
            refLog[i + 2].name = IF refLog[i].id = "" THEN "unknown" ELSE refLog[i + 1].name

\* two stores of different names under one non-empty id, then its lookup,
\* on a cache that already held another key
LastWriteWinsReached ==
    \E i \in 2..Len(refLog) :
        /\ StoreStoreRetrieve(i)
        /\ refLog[i].id = "s1"
        /\ refLog[i].name # refLog[i + 1].name
        /\ refLog[i + 2].name = refLog[i + 1].name
        /\ StoredBefore(i, "stack", "")

----------------------------------------------------------------------------
(* Properties of the router (Spec), stated on the last processMetrics call *)

Processed == pc = "processed"

\* the pair of caches before record i of the call was handled
Before(i) ==
    IF i = 1 THEN [stackRef |-> call.stackRef0, clusterRef |-> call.clusterRef0]
    ELSE call.trail[i - 1]

\* the emitter calls and the warnings made for record i of the call
EmittedFor(i, fn) ==
    {k \in 1..Len(call.emitted) : call.emitted[k].rec = i /\ call.emitted[k].fn = fn}
AllEmittedFor(i) == {k \in 1..Len(call.emitted) : call.emitted[k].rec = i}
WarningsFor(i) == {k \in 1..Len(call.warnings) : call.warnings[k].rec = i}

\* record i of the call left no trace: no emitter call, no warning, both
\* caches as they were before it
NoTrace(i) ==
    /\ AllEmittedFor(i) = {}
    /\ WarningsFor(i) = {}
    /\ call.trail[i] = Before(i)

\* C1: with hideSys = true a record with system = true causes no emitter
\* call and leaves stackRef and clusterRef as they were, for every endpoint.
HiddenSystemRecordNoTrace ==
    (Processed /\ call.hideSys) =>
        \A i \in 1..Len(call.data) : call.data[i].System => NoTrace(i)

\* a hidden system stacks record whose (id, name) would have changed
\* stackRef, in a payload whose other record was stored
HiddenSystemRecordReached ==
    /\ Processed /\ call.hideSys /\ call.endpoint = "stacks"
    /\ \E i, j \in 1..Len(call.data) :
         /\ call.data[i].System
         /\ call.data[i].ID \in DOMAIN stackRef
         /\ stackRef[call.data[i].ID] # call.data[i].Name
         /\ AllEmittedFor(j) # {}

\* C4 as stated: a metric emitted for a services record with stackId = s
\* carries the name of the last stacks record scraped with id s, and a
\* metric for a nodes record with clusterId = c the name of the last
\* clusters record scraped with id c.
ParentNameOfLastScraped ==
    Processed =>
        \A k \in 1..Len(call.emitted) :
            LET e == call.emitted[k]
                x == call.data[e.rec]
            IN  /\ (e.fn = "setServiceMetrics" /\ x.StackID \in DOMAIN scraped.stacks)
                       => e.parent = scraped.stacks[x.StackID]
                /\ (e.fn = "setNodeMetrics" /\ x.ClusterID \in DOMAIN scraped.clusters)
                       => e.parent = scraped.clusters[x.ClusterID]

\* C4: a metric emitted for a services record with a non-empty stackId = s
\* carries the name of the last stacks record with id s that reached the
\* stacks branch (was not skipped), and likewise for nodes and clusters.
ParentNameOfLastDispatched ==
    Processed =>
        \A k \in 1..Len(call.emitted) :
            LET e == call.emitted[k]
                x == call.data[e.rec]
            IN  /\ (e.fn = "setServiceMetrics" /\ x.StackID # ""
                        /\ x.StackID \in DOMAIN dispatched.stacks)
                       => e.parent = dispatched.stacks[x.StackID]
                /\ (e.fn = "setNodeMetrics" /\ x.ClusterID # ""
                        /\ x.ClusterID \in DOMAIN dispatched.clusters)
                       => e.parent = dispatched.clusters[x.ClusterID]

\* a service metric carrying the name of a stack that was renamed, while a
\* later stacks record with the same id was scraped but skipped
ParentNameReached ==
    /\ Processed
    /\ \E k \in 1..Len(call.emitted) :
         /\ call.emitted[k].fn = "setServiceMetrics"
         /\ call.data[call.emitted[k].rec].StackID = "s1"
         /\ call.emitted[k].parent = "dev"
         /\ scraped.stacks["s1"] = "prod"

\* C5 as stated: a transport failure, a status other than 200 and a body
\* that is not JSON each make gatherData return an error and no data.
FetchFailureReturnsError ==
    (pc = "gathered"
        /\ \/ res.resp.fault = "transport"
           \/ res.resp.fault = "none" /\ res.resp.status # 200
           \/ res.resp.fault = "none" /\ ~res.resp.json)
        => (res.outcome = "error" /\ ~res.hasData)

\* the metric of record i carries parent "unknown" when the lookup of id in
\* the cache ref (as it was before the call) misses
MissGivesUnknown(i, fn, id, ref) ==
    /\ Cardinality(EmittedFor(i, fn)) = 1
    /\ (id = "" \/ id \notin DOMAIN ref) =>
           \A k \in EmittedFor(i, fn) : call.emitted[k].parent = "unknown"

\* C6: every services (nodes) record that reaches its branch is emitted
\* once, with parent "unknown" when its stackId (clusterId) is empty or not
\* in the cache, wherever it stands in the payload, and processMetrics
\* returns nil.
ResolutionMissNotFatal ==
    Processed =>
        /\ call.ret = "nil"
        /\ \A i \in 1..Len(call.data) :
             LET x == call.data[i]
             IN  Dispatched(x, call.endpoint, call.hideSys) =>
                     /\ call.endpoint = "services" =>
                            MissGivesUnknown(i, "setServiceMetrics", x.StackID, call.stackRef0)
                     /\ call.endpoint = "nodes" =>
                            MissGivesUnknown(i, "setNodeMetrics", x.ClusterID, call.clusterRef0)

\* a services payload whose first record misses (empty stackId, non-empty
\* cache) and whose second record resolves
ResolutionMissReached ==
    /\ Processed /\ call.endpoint = "services" /\ Len(call.data) = 2
    /\ call.data[1].StackID = "" /\ call.stackRef0 # EmptyMap
    /\ \E k \in EmittedFor(1, "setServiceMetrics") : call.emitted[k].parent = "unknown"
    /\ \E k \in EmittedFor(2, "setServiceMetrics") : call.emitted[k].parent = "prod"
    /\ WarningsFor(1) # {} /\ WarningsFor(2) = {}

\* basetype when it is non-empty, type otherwise
EffectiveType(x) == IF x.BaseType # "" THEN x.BaseType ELSE x.Type

\* C8: a record whose effective type (basetype if non-empty, else type) is
\* not in the allow-list of the endpoint leaves no trace; a record whose
\* effective type is in it, and which is not a hidden system record, is
\* handed to an emitter.
RoutedByEffectiveType ==
    Processed =>
        \A i \in 1..Len(call.data) :
            LET x == call.data[i]
            IN  IF ~checkMetric(call.endpoint, EffectiveType(x))
                THEN NoTrace(i)
                ELSE ~(call.hideSys /\ x.System) => AllEmittedFor(i) # {}

\* a skipped record whose type alone would have passed and whose (id, name)
\* would have changed the cache, next to a record passed on its type because
\* its basetype is empty
EffectiveTypeReached ==
    /\ Processed /\ call.endpoint = "clusters" /\ Len(call.data) = 2
    /\ call.data[1].BaseType = "" /\ AllEmittedFor(1) # {}
    /\ call.data[2].BaseType = "project" /\ call.data[2].Type = "cluster"
    /\ AllEmittedFor(2) = {}
    /\ "c1" \notin DOMAIN clusterRef

\* C9: for a hosts record that reaches the hosts branch the state metrics
\* are set once, and the hardware-info metrics once if HostInfo is non-nil
\* and not at all if it is nil.
HostInfoOnlyWhenPresent ==
    (Processed /\ call.endpoint = "hosts") =>
        \A i \in 1..Len(call.data) :
            LET x == call.data[i]
            IN  Dispatched(x, "hosts", call.hideSys) =>
                    /\ Cardinality(EmittedFor(i, "setHostStateMetrics")) = 1
                    /\ Cardinality(EmittedFor(i, "setHostInfoMetrics"))
                           = IF x.HostInfo THEN 1 ELSE 0

\* a host without hardware info followed by a host with it
HostWithoutInfoReached ==
    /\ Processed /\ call.endpoint = "hosts" /\ Len(call.data) = 2
    /\ ~call.data[1].HostInfo /\ call.data[2].HostInfo
    /\ EmittedFor(1, "setHostStateMetrics") # {} /\ EmittedFor(1, "setHostInfoMetrics") = {}
    /\ EmittedFor(2, "setHostStateMetrics") # {} /\ EmittedFor(2, "setHostInfoMetrics") # {}

----------------------------------------------------------------------------
(* Properties of the label filter (SpecLabels) and the URL builder (SpecURL) *)

\* C7: allowedLabels returns exactly the entries of its argument whose key
\* matches the pattern, each with its value, in whatever order it ranges
\* over the argument; the result is empty when the argument is empty or no
\* key matches.
LabelsExact ==
    unit.fn = "allowedLabels" =>
        LET kept == {k \in DOMAIN unit.labels : MatchString(labelsFilter, k)}
        IN  /\ DOMAIN unit.result = kept
            /\ \A k \in kept : unit.result[k] = unit.labels[k]
            /\ (unit.labels = EmptyMap \/ kept = {}) => unit.result = EmptyMap

\* allowedLabels({"a": "1", "xb": "2"}) under the pattern ^a gave {"a": "1"}
LabelsExampleReached ==
    /\ unit.fn = "allowedLabels"
    /\ labelsFilter = [anchored |-> TRUE, lit |-> <<"a">>]
    /\ unit.labels = [k \in {<<"a">>, <<"x", "b">>} |-> IF k = <<"a">> THEN "1" ELSE "2"]
    /\ unit.result = [k \in {<<"a">>} |-> "1"]

\* the API-version segment after the rewrite
RewrittenVersion(ver) == IF ver = V1 THEN V2Beta ELSE ver

\* C10 as stated: setEndpoint returns base/endpoint/?limit=limit with the
\* API-version segment v1 rewritten to v2-beta and the host, the endpoint
\* name and the limit as they were given.
OnlyVersionSegmentRewritten ==
    unit.fn = "setEndpoint" =>
        unit.result = Scheme \o unit.host \o <<"/">> \o RewrittenVersion(unit.ver) \o <<"/">>
                          \o EndpointChars(unit.endpoint) \o <<"/">> \o LimitQuery \o unit.limit

----------------------------------------------------------------------------
(* Properties of the caches after a processMetrics call (Spec) *)

\* the cache that the endpoint of the call writes, before and after the call
WrittenBefore == IF call.endpoint = "stacks" THEN call.stackRef0 ELSE call.clusterRef0
WrittenAfter == IF call.endpoint = "stacks" THEN stackRef ELSE clusterRef

\* the records of the call with this id that reached their branch
DispatchedWithID(id) ==
    {j \in 1..Len(call.data) :
        call.data[j].ID = id /\ Dispatched(call.data[j], call.endpoint, call.hideSys)}

\* the last of them
LastOf(js) == CHOOSE j \in js : \A k \in js : k <= j

\* C11 as stated: after a stacks (clusters) payload is processed, stackRef
\* (clusterRef) maps the id of every record of the payload to its name,
\* skipped records included.
EveryScrapedRecordStored ==
    (Processed /\ call.endpoint \in {"stacks", "clusters"}) =>
        \A i \in 1..Len(call.data) :
            /\ call.data[i].ID \in DOMAIN WrittenAfter
            /\ WrittenAfter[call.data[i].ID] = call.data[i].Name

\* C11: after a stacks (clusters) payload is processed, stackRef
\* (clusterRef) maps the id of every record that reached its branch to the
\* name of the last such record with that id; an id that only skipped
\* records carry is mapped as it was before the call.
EveryDispatchedRecordStored ==
    (Processed /\ call.endpoint \in {"stacks", "clusters"}) =>
        \A i \in 1..Len(call.data) :
            LET id == call.data[i].ID
                js == DispatchedWithID(id)
            IN  IF js # {}
                THEN /\ id \in DOMAIN WrittenAfter
                     /\ WrittenAfter[id] = call.data[LastOf(js)].Name
                ELSE /\ id \in DOMAIN WrittenAfter <=> id \in DOMAIN WrittenBefore
                     /\ id \in DOMAIN WrittenAfter => WrittenAfter[id] = WrittenBefore[id]

\* a stacks payload whose first record was stored and whose second record,
\* with the same id and another name, was skipped
SkippedRecordNotStoredReached ==
    /\ Processed /\ call.endpoint = "stacks" /\ Len(call.data) = 2
    /\ call.data[1].ID = "s1" /\ call.data[2].ID = "s1"
    /\ call.data[1].Name # call.data[2].Name
    /\ AllEmittedFor(1) # {} /\ AllEmittedFor(2) = {}
    /\ call.stackRef0 = EmptyMap
    /\ stackRef["s1"] = call.data[1].Name

----------------------------------------------------------------------------
(* Labels of the services records (Spec) *)

\* the labels emitted for record i of the call when a payload holding that
\* record alone is processed against the same caches
AloneLabels(i) ==
    LET b == Before(i)
        r == processMetrics(<<call.data[i]>>, call.endpoint, call.hideSys,
                            b.stackRef, b.clusterRef,
                            SomeOrder(b.stackRef), SomeOrder(b.clusterRef))
    IN  r.emitted[1].labels

\* C12 as stated: the labels emitted for a services record are derived from
\* that record alone: they are the labels emitted for it when the record is
\* the only one of the payload, whatever records precede it.
LabelsFreshlyDerived ==
    (Processed /\ call.endpoint = "services") =>
        \A k \in 1..Len(call.emitted) :
            call.emitted[k].labels = AloneLabels(call.emitted[k].rec)

----------------------------------------------------------------------------
(* Growth of the caches (Spec) *)

\* within the call, no record removed a key, and the records of a services
\* or nodes payload, which only retrieve, left both maps as they were
RecordsOnlyGrow ==
    \A i \in 1..Len(call.trail) :
        /\ DOMAIN Before(i).stackRef \subseteq DOMAIN call.trail[i].stackRef
        /\ DOMAIN Before(i).clusterRef \subseteq DOMAIN call.trail[i].clusterRef
        /\ call.endpoint \in {"services", "nodes"} => call.trail[i] = Before(i)

\* C14: the caches only grow: no step of gatherData, processMetrics or the
\* move to the next endpoint, and no record handled inside processMetrics,
\* removes a key of stackRef or clusterRef, and the retrieves of a services
\* or nodes payload change neither map.
CachesOnlyGrow ==
    [][/\ DOMAIN stackRef \subseteq DOMAIN stackRef'
       /\ DOMAIN clusterRef \subseteq DOMAIN clusterRef'
       /\ pc' = "processed" => RecordsOnlyGrow']_vars

\* a services payload was processed against a stack cache that had grown to
\* two keys, one retrieve found a name, and the cache is as before the call
RetrieveOnGrownCacheReached ==
    /\ Processed /\ call.endpoint = "services"
    /\ Cardinality(DOMAIN call.stackRef0) = 2
    /\ \E k \in 1..Len(call.emitted) : call.emitted[k].parent # "unknown"
    /\ stackRef = call.stackRef0

----------------------------------------------------------------------------
(* Frame of a processMetrics call (Spec) *)

\* C15: processing a hosts, services or nodes payload leaves stackRef and
\* clusterRef as they were before the call; a stacks payload leaves
\* clusterRef unchanged and a clusters payload leaves stackRef unchanged.
EndpointFrame ==
    Processed =>
        /\ call.endpoint \in {"hosts", "services", "nodes"} =>
               stackRef = call.stackRef0 /\ clusterRef = call.clusterRef0
        /\ call.endpoint = "stacks" => clusterRef = call.clusterRef0
        /\ call.endpoint = "clusters" => stackRef = call.stackRef0

\* a clusters payload changed clusterRef and left a non-empty stackRef alone
ClustersFrameReached ==
    /\ Processed /\ call.endpoint = "clusters"
    /\ clusterRef # call.clusterRef0
    /\ call.stackRef0 # EmptyMap /\ stackRef = call.stackRef0

----------------------------------------------------------------------------
(* A failed fetch (Spec) *)

\* C16: a gatherData call makes exactly one call of getJSON and changes
\* neither cache; when it returns an error it returns no data, and no
\* emitter call or warning is made; the step that follows an error leaves
\* both caches and the empty call record as they are, so the next gatherData
\* call starts from the same caches.
FailedFetchAbandoned ==
    [][/\ (pc = "idle" /\ pc' = "gathered") =>
              /\ res'.fetches = 1
              /\ stackRef' = stackRef /\ clusterRef' = clusterRef
              /\ call' = call
              /\ res'.outcome = "error" =>
                     /\ ~res'.hasData /\ res'.data = <<>> /\ res'.err # ""
                     /\ call'.emitted = <<>> /\ call'.warnings = <<>>
       /\ (pc = "gathered" /\ res.outcome = "error") =>
              /\ pc' = "idle"
              /\ stackRef' = stackRef /\ clusterRef' = clusterRef
              /\ call'.emitted = <<>> /\ call'.warnings = <<>>]_vars

\* a gatherData call returned an error while the caches were not empty
FailedFetchReached ==
    /\ pc = "gathered" /\ res.outcome = "error" /\ res.fetches = 1
    /\ stackRef # EmptyMap /\ clusterRef # EmptyMap

----------------------------------------------------------------------------
(* Reuse of the filtered labels inside one services payload (Spec) *)

\* the record carries launch-config labels
HasLaunchLabels(x) == x.LaunchConfig.present /\ DOMAIN x.LaunchConfig.Labels # {}

\* the entries of labels whose key the filter matches
Filtered(labels) ==
    LET keep == {name \in DOMAIN labels : MatchString(labelsFilter, name)}
    IN  [name \in keep |-> labels[name]]

\* the dispatched records of the call, up to record i, that carry
\* launch-config labels
LabelSources(i) ==
    {j \in 1..i : /\ Dispatched(call.data[j], call.endpoint, call.hideSys)
                  /\ HasLaunchLabels(call.data[j])}

\* C17: the labels passed to setServiceMetrics for a services record are the
\* filtered launch-config labels of the nearest record of the same call, the
\* record itself or a dispatched one before it, that has launch-config
\* labels, and are empty when there is none: nothing of an earlier call or
\* of another endpoint is attached.
LabelReuseWithinCall ==
    (Processed /\ call.endpoint = "services") =>
        \A k \in 1..Len(call.emitted) :
            LET js == LabelSources(call.emitted[k].rec)
            IN  call.emitted[k].labels =
                    IF js = {} THEN EmptyMap
                    ELSE Filtered(call.data[LastOf(js)].LaunchConfig.Labels)

\* after earlier calls, a services payload whose second record has no launch
\* configuration was emitted with the filtered labels of the first record
LabelReuseReached ==
    /\ Processed /\ call.endpoint = "services" /\ Len(call.data) = 2
    /\ call.stackRef0 # EmptyMap
    /\ HasLaunchLabels(call.data[1]) /\ ~call.data[2].LaunchConfig.present
    /\ \E k \in EmittedFor(2, "setServiceMetrics") :
           /\ call.emitted[k].labels = Filtered(call.data[1].LaunchConfig.Labels)
           /\ call.emitted[k].labels # EmptyMap

----------------------------------------------------------------------------
(* The warning of a resolution miss (Spec) *)

\* C18 as stated: for every services (nodes) record that reaches its branch,
\* the warning "Failed to obtain stack_name (cluster_name)" is logged if and
\* only if the stackId (clusterId) of the record is empty or is not a key of
\* the cache at that moment.
WarnedExactlyOnMiss ==
    (Processed /\ call.endpoint \in {"services", "nodes"}) =>
        \A i \in 1..Len(call.data) :
            LET x == call.data[i]
                id == IF call.endpoint = "services" THEN x.StackID ELSE x.ClusterID
                ref == IF call.endpoint = "services"
                       THEN Before(i).stackRef ELSE Before(i).clusterRef
            IN  Dispatched(x, call.endpoint, call.hideSys) =>
                    (WarningsFor(i) # {} <=> (id = "" \/ id \notin DOMAIN ref))

----------------------------------------------------------------------------
(* Concurrent scrape cycles (SpecConc) *)

\* C13 as stated: the accesses of the two cycles to a cache are mutually
\* exclusive: in no state is one cycle inside a write of stackRef (or
\* clusterRef) while the other cycle is inside a read or a write of the same
\* map.
CacheAccessMutuallyExclusive ==
    \A c \in Cycles, d \in Cycles, cache \in {"stackRef", "clusterRef"} :
        (c # d /\ Writing(c, cache)) => ~Accessing(d, cache)

\* C19 as stated: a services record with a non-empty stackId that a cycle
\* resolves after its own stacks payload stored that id gets a name that
\* some cycle stored for the id, never the result of a miss.
StoredIdNeverMisses ==
    \A c \in Cycles :
        \A r \in cycles[c].resolved :
            (/\ r.endpoint = "services" /\ r.id # ""
             /\ \E p \in cycles[c].stored : p.cache = "stackRef" /\ p.id = r.id)
            => \E d \in Cycles : \E p \in cycles[d].stored :
                   p.cache = "stackRef" /\ p.id = r.id /\ p.name = r.name

====
